---- MODULE Spec2Model ----
(***************************************************************************)
(* Measurement fetch-and-normalize pipeline of the Teleagriculture kits    *)
(* client: get_kit_info, _paginate, get_kit_measurements_df and            *)
(* load_cached_kit_dataframe, as written in src/api_call.py and in the     *)
(* second implementation src/utils.py.  One behaviour of Spec is one call  *)
(* of get_kit_measurements_df; every HTTP request is one step.             *)
(* PaginateSpec is the same call with an explicit sensor list, MainSpec    *)
(* one run of the command line of src/api_call.py, GenaiSpec one call of   *)
(* generate_genai_image of src/genai.py, and AppSpec one session of the    *)
(* page built by create_app of src/app.py.                                 *)
(***************************************************************************)
EXTENDS Integers, Sequences, FiniteSets, TLC

(***************************************************************************)
(* Bounds of the model.                                                    *)
(***************************************************************************)
\* most changes of the kit input made in one page session
MaxChanges == 2
\* most Refresh clicks made in one page session
MaxClicks == 1
\* largest max_pages argument a call is made with
MaxPages == 2
\* most raw items the remote service hands out during one call
MaxItems == 4

(***************************************************************************)
(* JSON scalars.  A value of the remote service is a tagged record, so     *)
(* that the number 0, the string "0", the empty string and null stay       *)
(* distinct, as they are for Python's truthiness and for pandas.           *)
(***************************************************************************)
Null == [kind |-> "null", num |-> 0, str |-> ""]
Absent == [kind |-> "absent", num |-> 0, str |-> ""]
Num(n) == [kind |-> "num", num |-> n, str |-> ""]
Str(s) == [kind |-> "str", num |-> 0, str |-> s]
NaN == [kind |-> "nan", num |-> 0, str |-> ""]

\* dict.get(key): a missing key reads as None
Get(v) == IF v.kind = "absent" THEN Null ELSE v

\* Python truthiness of a JSON scalar
Truthy(v) == \/ v.kind = "num" /\ v.num # 0
             \/ v.kind = "str" /\ v.str # ""

\* a or b or ... : the first truthy operand, else the last operand
OrChain(vs) ==
  IF \E i \in 1..Len(vs) : Truthy(vs[i])
  THEN vs[CHOOSE i \in 1..Len(vs) :
            Truthy(vs[i]) /\ \A j \in 1..(i - 1) : ~Truthy(vs[j])]
  ELSE vs[Len(vs)]

(***************************************************************************)
(* pandas conversions.  Instants are positive integers; NaT is 0.          *)
(***************************************************************************)
NaT == 0

\* pd.to_datetime(..., errors="coerce", utc=True) on one cell: two spellings
\* of the same instant parse alike, anything else becomes NaT
to_datetime(v) ==
  IF v.kind # "str" THEN NaT
  ELSE CASE v.str = "2025-01-01T00:00:01Z" -> 1
         [] v.str = "2025-01-01T00:00:02Z" -> 2
         [] v.str = "2025-01-01 00:00:02+00:00" -> 2
         [] v.str = "2025-01-01T00:00:03Z" -> 3
         [] OTHER -> NaT

\* pd.to_numeric(..., errors="coerce") on one cell
to_numeric(v) ==
  CASE v.kind = "num" -> v
    [] v.kind = "str" /\ v.str = "7" -> Num(7)
    [] OTHER -> NaN

\* Series.astype(str) on one cell of the sensor column: str(None) is "None",
\* str(nan) is "nan", a string stays what it is
astype_str(v) ==
  CASE v.kind = "str" -> v
    [] v.kind = "null" -> Str("None")
    [] v.kind = "nan" -> Str("nan")
    [] OTHER -> Str("7")

\* Python's ordering of the sensor names that occur (code-point order)
SensorOrder == <<"", "C3H8", "CO", "NH3", "None", "ftTemp", "gbHum", "nan">>
SensorRank(v) == CHOOSE i \in 1..Len(SensorOrder) : SensorOrder[i] = v.str

\* sort key order of sort_values(["sensor", "timestamp"]): NaT sorts last
RowLess(a, b) ==
  \/ SensorRank(a.sensor) < SensorRank(b.sensor)
  \/ /\ a.sensor = b.sensor
     /\ a.timestamp # NaT
     /\ (b.timestamp = NaT \/ a.timestamp < b.timestamp)

\* the place row i of df takes in a stable sort: behind the rows with a
\* smaller key and behind the earlier rows with an equal key
SortedPlaceUnstable(df, i) ==
  1 + Cardinality({j \in 1..Len(df) :
                     \/ RowLess(df[j], df[i])
                     \/ j > i /\ ~RowLess(df[i], df[j])})
SortedPlace(df, i) ==
  1 + Cardinality({j \in 1..Len(df) :
                     \/ RowLess(df[j], df[i])
                     \/ j < i /\ ~RowLess(df[i], df[j])})

\* DataFrame.sort_values(["sensor", "timestamp"], kind="stable")
sort_values(df) ==
  [k \in 1..Len(df) |-> df[CHOOSE i \in 1..Len(df) : SortedPlace(df, i) = k]]

\* DataFrame.dropna(subset=["timestamp"])
dropna(df) == SelectSeq(df, LAMBDA r : r.timestamp # NaT)

(***************************************************************************)
(* Raw items of a measurements page.  An item is a JSON value: a dict with *)
(* top-level fields f and an optional "attributes" member, or something    *)
(* that is not a dict.                                                     *)
(***************************************************************************)
TsKeys == <<"timestamp", "time", "created_at", "datetime">>
ValKeys == <<"value", "reading", "measurement", "val">>
UnitKeys == <<"unit", "units">>
Keys == {"timestamp", "time", "created_at", "datetime",
         "value", "reading", "measurement", "val", "unit", "units"}

NoFields == [k \in Keys |-> Absent]
NoAttributes == [kind |-> "absent", f |-> NoFields]
Dict(fields) == [kind |-> "dict", attributes |-> NoAttributes, f |-> fields]
WithAttributes(item, fields) ==
  [item EXCEPT !.attributes = [kind |-> "dict", f |-> fields]]

T1 == Str("2025-01-01T00:00:01Z")
T2 == Str("2025-01-01T00:00:02Z")
T2alt == Str("2025-01-01 00:00:02+00:00")
T3 == Str("2025-01-01T00:00:03Z")

\* {"timestamp": T2, "value": 5, "unit": "C"}
ItemPlain == Dict([NoFields EXCEPT !["timestamp"] = T2, !["value"] = Num(5),
                                   !["unit"] = Str("C")])
\* {"time": T1, "reading": "7"}
ItemAlias == Dict([NoFields EXCEPT !["time"] = T1, !["reading"] = Str("7")])
\* {"attributes": {"timestamp": T2alt, "value": 3, "unit": "%"}}
ItemNested == WithAttributes(Dict(NoFields),
                [NoFields EXCEPT !["timestamp"] = T2alt, !["value"] = Num(3),
                                 !["unit"] = Str("%")])
\* {"attributes": {"timestamp": T1, "value": 1}, "timestamp": T3, "value": 2}
ItemBoth == WithAttributes(
              Dict([NoFields EXCEPT !["timestamp"] = T3, !["value"] = Num(2)]),
              [NoFields EXCEPT !["timestamp"] = T1, !["value"] = Num(1)])
\* {"value": 5}: no timestamp under any alias
ItemNoTs == Dict([NoFields EXCEPT !["value"] = Num(5)])
\* {"timestamp": T1}: no value under any alias
ItemNoVal == Dict([NoFields EXCEPT !["timestamp"] = T1])
\* {"timestamp": "yesterday", "value": 5}: a timestamp that does not parse
ItemBadTs == Dict([NoFields EXCEPT !["timestamp"] = Str("yesterday"),
                                   !["value"] = Num(5)])
\* {"timestamp": T1, "value": "n/a"}: a value that is not numeric
ItemBadVal == Dict([NoFields EXCEPT !["timestamp"] = T1,
                                    !["value"] = Str("n/a")])
\* {"timestamp": T3, "value": 0}: a reading of zero
ItemZero == Dict([NoFields EXCEPT !["timestamp"] = T3, !["value"] = Num(0)])
\* {"attributes": "n/a", "timestamp": T1, "value": 5}
ItemBadAttrs == [Dict([NoFields EXCEPT !["timestamp"] = T1, !["value"] = Num(5)])
                   EXCEPT !.attributes = [kind |-> "other", f |-> NoFields]]
\* {"attributes": {"time": T1, "reading": 5}}: aliases under "attributes"
ItemAttrAlias == WithAttributes(Dict(NoFields),
                   [NoFields EXCEPT !["time"] = T1, !["reading"] = Num(5)])
\* {"timestamp": T1, "value": 0, "reading": 5}: a zero before a lower alias
ItemZeroAlias == Dict([NoFields EXCEPT !["timestamp"] = T1, !["value"] = Num(0),
                                       !["reading"] = Num(5)])
\* "n/a": an item that is not a dict
ItemNotDict == [kind |-> "other", attributes |-> NoAttributes, f |-> NoFields]

\* the pages the remote service answers with when no further page follows
Pages == { <<>>,
           <<ItemNoTs, ItemNested>>,
           <<ItemNoVal, ItemBadTs>>,
           <<ItemNotDict, ItemBadVal>>,
           <<ItemBoth, ItemZero>>,
           <<ItemAttrAlias, ItemZeroAlias>>,
           <<ItemBadAttrs>> }

\* the pages it answers with when it announces a further page
MorePages == {<<ItemPlain, ItemAlias>>}

(***************************************************************************)
(* The loop body of get_kit_measurements_df for one raw item.              *)
(***************************************************************************)
Lookup(fields, keys) == [i \in 1..Len(keys) |-> Get(fields[keys[i]])]

\* src/api_call.py: attrs = item.get("attributes") or {}
ApiAttrs(item) ==
  IF item.attributes.kind = "dict" THEN item.attributes.f ELSE NoFields

\* src/api_call.py: one pass of "for item in page"
\*   outcome "raise": attrs.get on a truthy non-dict "attributes"
ApiItem(kit_id, sname, item) ==
  LET attrs == ApiAttrs(item)
      ts == OrChain(<<Get(attrs["timestamp"])>> \o Lookup(item.f, TsKeys))
      val == OrChain(<<Get(attrs["value"])>> \o Lookup(item.f, ValKeys))
      unit == OrChain(<<Get(attrs["unit"])>> \o Lookup(item.f, UnitKeys))
  IN IF item.kind # "dict" THEN [outcome |-> "skip"]
     ELSE IF item.attributes.kind = "other" THEN [outcome |-> "raise"]
     ELSE IF ts = Null \/ val = Null THEN [outcome |-> "skip"]
     ELSE [outcome |-> "row",
           row |-> [kit_id |-> Num(kit_id), sensor |-> sname,
                    timestamp |-> ts, value |-> val, unit |-> unit]]

\* src/utils.py: rec = item.get("attributes", {}); rec.update(top-level keys)
UtilsRec(item) ==
  [k \in Keys |-> IF item.f[k].kind # "absent" THEN item.f[k]
                  ELSE item.attributes.f[k]]

\* src/utils.py: the item as it is after rec.update wrote into its
\* "attributes" dict (a missing "attributes" gives a fresh dict instead)
UtilsMutated(item) ==
  IF item.attributes.kind = "dict"
  THEN [item EXCEPT !.attributes.f = UtilsRec(item)]
  ELSE item

\* src/utils.py: one pass of "for item in page"
\*   outcome "raise": rec.update on an "attributes" that is null or not a dict
UtilsItem(kit_id, sname, item) ==
  LET rec == UtilsRec(item)
  IN IF item.kind # "dict" THEN [outcome |-> "skip"]
     ELSE IF item.attributes.kind \in {"other", "null"}
       THEN [outcome |-> "raise"]
     ELSE [outcome |-> "row",
           row |-> [kit_id |-> Num(kit_id), sensor |-> sname,
                    timestamp |-> OrChain(Lookup(rec, TsKeys)),
                    value |-> OrChain(Lookup(rec, ValKeys)),
                    unit |-> OrChain(Lookup(rec, UnitKeys)),
                    raw |-> UtilsMutated(item)]]

\* the caller's "for item in page" over one yielded page: the rows appended,
\* whether an item raised (which abandons the call), and what became of each
\* item ("unreached": it comes after the item that raised)
ProcessPage(imp, kit, sname, page) ==
  LET each == [i \in 1..Len(page) |->
                 IF imp = "api_call" THEN ApiItem(kit, sname, page[i])
                 ELSE UtilsItem(kit, sname, page[i])]
      done == [i \in 1..Len(page) |->
                 IF \E j \in 1..(i - 1) : each[j].outcome = "raise"
                 THEN [outcome |-> "unreached"] ELSE each[i]]
      kept == SelectSeq(done, LAMBDA r : r.outcome = "row")
  IN [raised |-> \E i \in 1..Len(page) : done[i].outcome = "raise",
      rows |-> [i \in 1..Len(kept) |-> kept[i].row],
      done |-> done]

(***************************************************************************)
(* Responses of the remote service.                                        *)
(*   status: "exc" (requests raised), "200", "500"                         *)
(*   body:   "unparseable", "array" (valid JSON, not an object), "object"  *)
(***************************************************************************)
Page(items, meta_kind, next_cursor) ==
  [status |-> "200", body |-> "object",
   data |-> [kind |-> "list", items |-> items],
   meta |-> [kind |-> meta_kind, next_cursor |-> next_cursor]]
Failure(status, body) ==
  [status |-> status, body |-> body,
   data |-> [kind |-> "absent", items |-> <<>>],
   meta |-> [kind |-> "absent", next_cursor |-> Absent]]

MeasurementResponses ==
  {Failure("exc", "none"), Failure("500", "object"),
   Failure("200", "unparseable"), Failure("200", "array"),
   \* {} : neither "data" nor "meta"
   Failure("200", "object"),
   \* {"data": {...}, "meta": {"next_cursor": ""}}
   [Failure("200", "object") EXCEPT !.data.kind = "other",
       !.meta = [kind |-> "dict", next_cursor |-> Str("")]],
   \* {"data": [], "meta": null}
   Page(<<>>, "null", Absent),
   \* {"data": []} without "meta"
   Page(<<>>, "absent", Absent)}
  \cup {Page(p, "dict", Null) : p \in Pages}
  \cup {Page(p, "dict", Str("c1")) : p \in MorePages}
  \cup {Page(<<>>, "dict", Str("c2")), Page(<<>>, "dict", Absent)}

\* the list _paginate yields for a parsed object body
Yielded(resp) == IF resp.data.kind = "list" THEN resp.data.items ELSE <<>>

\* what one turn of the while loop of _paginate does with a response
\*   "break": leaves the loop before yielding
\*   "raise": payload.get on a body that is not a dict
\*   "yield": yields a page; the turn goes on after the caller used it
PaginateTurn(resp) ==
  CASE resp.status = "exc" -> "break"
    [] resp.status # "200" -> "break"
    [] resp.body = "unparseable" -> "break"
    [] resp.body = "array" -> "raise"
    [] OTHER -> "yield"

\* cursor = meta.get("next_cursor") with meta = payload.get("meta", {})
NextCursor(resp) == Get(resp.meta.next_cursor)

\* q["page[size]"] = str(page_size), with the default page_size
PageSize == Str("100")

\* q["page[cursor]"] as a request is sent: "if cursor: q["page[cursor]"] = cursor"
CursorParamNeverSet(cur, q) == q
CursorParam(cur, q) == IF Truthy(cur) THEN cur ELSE q

\* the loop goes round again: "if not cursor: break", "while pages < max_pages"
ContinuePagingOffByOne(cur, npages, maxp) == Truthy(cur) /\ npages <= maxp
ContinuePaging(cur, npages, maxp) == Truthy(cur) /\ npages < maxp

(***************************************************************************)
(* Kit metadata lookup.                                                    *)
(***************************************************************************)
Descriptor(name, slug, sensor) ==
  [kind |-> "dict", name |-> name, slug |-> slug, sensor |-> sensor]
NotADescriptor == [kind |-> "other", name |-> Absent, slug |-> Absent,
                   sensor |-> Absent]

KitBody(data_kind, descriptors) ==
  [status |-> "200", body |-> "object",
   data |-> [kind |-> data_kind, sensors |-> descriptors]]
KitFailure(status, body) ==
  [status |-> status, body |-> body,
   data |-> [kind |-> "absent", sensors |-> <<>>]]

KitResponses ==
  {KitFailure("exc", "none"), KitFailure("404", "object"),
   KitFailure("200", "unparseable"), KitFailure("200", "array"),
   \* {}, {"data": {}} and {"data": {"sensors": []}}
   KitFailure("200", "object"), KitBody("empty", <<>>), KitBody("dict", <<>>),
   \* {"data": "n/a"}
   KitBody("other", <<>>),
   \* {"data": {"sensors": [{"name": "gbHum"}, "n/a", {}, {"slug": "ftTemp"}]}}
   KitBody("dict", <<Descriptor(Str("gbHum"), Absent, Absent), NotADescriptor,
                     Descriptor(Absent, Absent, Absent),
                     Descriptor(Str(""), Str("ftTemp"), Absent)>>),
   \* {"data": {"sensors": [{"sensor": "NH3"}]}}
   KitBody("dict", <<Descriptor(Absent, Null, Str("NH3"))>>)}

\* get_kit_info: "raise" (body.get on a body that is not a dict), "None",
\* or the "data" member.  r.json() on an unparseable body raises
\* requests.JSONDecodeError, a RequestException, which the except clause takes.
get_kit_info(resp) ==
  CASE resp.status = "exc" -> [outcome |-> "None"]
    [] resp.status # "200" -> [outcome |-> "None"]
    [] resp.body = "unparseable" -> [outcome |-> "None"]
    [] resp.body = "array" -> [outcome |-> "raise"]
    [] resp.data.kind = "absent" -> [outcome |-> "None"]
    [] OTHER -> [outcome |-> "data", data |-> resp.data]

\* src/api_call.py: s.get("name") or s.get("slug") or s.get("sensor")
ApiSensorName(d) == OrChain(<<Get(d.name), Get(d.slug), Get(d.sensor)>>)
\* src/utils.py: s.get("name")
UtilsSensorName(d) == Get(d.name)

SensorNames(imp, descriptors) ==
  LET usable == SelectSeq(descriptors, LAMBDA d :
                  /\ d.kind = "dict"
                  /\ Truthy(IF imp = "api_call" THEN ApiSensorName(d)
                            ELSE UtilsSensorName(d)))
  IN [i \in 1..Len(usable) |->
        IF imp = "api_call" THEN ApiSensorName(usable[i])
        ELSE UtilsSensorName(usable[i])]

\* os.getenv("KITS_SENSORS"), as its comma-separated pieces; <<>> when unset
EnvValues == {<<>>, <<" ", "">>, <<" NH3", "", "CO ">>}
\* str.strip() on the pieces that occur
Strip(t) == CASE t = " " -> ""
              [] t = " NH3" -> "NH3"
              [] t = "CO " -> "CO"
              [] OTHER -> t
\* (os.getenv("KITS_SENSORS") or "").strip() is a non-empty string
EnvIsSet(env) == Len(env) > 1 \/ (Len(env) = 1 /\ Strip(env[1]) # "")
\* [s.strip() for s in env_sensors.split(",") if s.strip()]
EnvSensors(env) ==
  LET kept == SelectSeq(env, LAMBDA t : Strip(t) # "")
  IN [i \in 1..Len(kept) |-> Str(Strip(kept[i]))]

DefaultSensors ==
  <<Str("ftTemp"), Str("gbHum"), Str("NH3"), Str("C3H8"), Str("CO")>>

\* [s for s in sensors if s]
NonEmpty(list) == SelectSeq(list, Truthy)

(***************************************************************************)
(* Frames.  A frame is the sequence of its rows.                           *)
(***************************************************************************)
MapRows(df, F(_)) == [i \in 1..Len(df) |-> F(df[i])]

ParseTimestamp(r) == [r EXCEPT !.timestamp = to_datetime(@)]
CoerceValue(r) == [r EXCEPT !.value = to_numeric(@)]
SensorToStr(r) == [r EXCEPT !.sensor = astype_str(@)]

\* the try block both of the live path and of the cache path of
\* src/api_call.py: to_datetime, dropna, to_numeric, astype(str), sort_values
Normalize(df) ==
  sort_values(MapRows(MapRows(dropna(MapRows(df, ParseTimestamp)),
                              CoerceValue), SensorToStr))

\* src/api_call.py: df = pd.DataFrame(rows, ...); if not df.empty: try: ...
ApiFrame(rows) == IF rows = <<>> THEN <<>> ELSE Normalize(rows)

\* src/utils.py: df = pd.DataFrame(rows); to_datetime and sort_values only
UtilsFrame(rows) ==
  IF rows = <<>> THEN <<>> ELSE sort_values(MapRows(rows, ParseTimestamp))

(***************************************************************************)
(* Cached snapshots: the files kit_<kit>_<date>.<ext> of the data          *)
(* directory, in directory order, with the frame pandas reads from each.   *)
(***************************************************************************)
Columns == {"kit_id", "sensor", "timestamp", "value", "unit"}

CRow(kit, sensor, ts, value) ==
  [kit_id |-> kit, sensor |-> sensor, timestamp |-> ts, value |-> value,
   unit |-> NaN]
File(kit, ext, mtime, rows) ==
  [kit |-> kit, ext |-> ext, mtime |-> mtime, readable |-> TRUE,
   columns |-> Columns, rows |-> rows]

OldRows == <<CRow(Num(1001), Str("ftTemp"), T1, Num(5))>>
NewRows == <<CRow(Num(1001), Str("gbHum"), T3, Str("n/a")),
             CRow(Num(1001), Str("gbHum"), Str("yesterday"), Num(3)),
             CRow(Num(1001), Str("ftTemp"), T2alt, Num(7))>>
OtherKitRows == <<CRow(Num(1002), Str("CO"), T3, Num(9))>>
StaleRows == <<CRow(Num(1001), Str("NH3"), Str("yesterday"), Num(1))>>

DataDirs ==
  { \* no data directory
    [exists |-> FALSE, files |-> <<>>],
    \* only a snapshot of another kit
    [exists |-> TRUE, files |-> <<File(1002, "csv", 3, OtherKitRows)>>],
    \* an old and a new snapshot of the kit, and a newer one of another kit
    [exists |-> TRUE, files |-> <<File(1001, "parquet", 2, NewRows),
                                  File(1002, "csv", 3, OtherKitRows),
                                  File(1001, "csv", 1, OldRows)>>],
    \* the newest snapshot of the kit cannot be read
    [exists |-> TRUE, files |-> <<File(1001, "csv", 1, OldRows),
         [File(1001, "parquet", 2, NewRows) EXCEPT !.readable = FALSE]>>],
    \* a snapshot without the kit_id and unit columns
    [exists |-> TRUE, files |-> <<
         [File(1001, "csv", 1, OldRows) EXCEPT !.columns =
            {"sensor", "timestamp", "value"}]>>],
    \* a snapshot saved under this kit's name with another kit's rows
    [exists |-> TRUE, files |-> <<File(1001, "csv", 1, OtherKitRows)>>],
    \* the newest snapshot has no row with a valid timestamp
    [exists |-> TRUE, files |-> <<File(1001, "csv", 1, OldRows),
                                  File(1001, "csv", 2, StaleRows)>>],
    \* two snapshots of the kit with the same modification time
    [exists |-> TRUE, files |-> <<File(1001, "parquet", 2, NewRows),
                                  File(1001, "csv", 2, NewRows)>>] }

\* list(base.glob("kit_<id>_*.csv")) + list(base.glob("kit_<id>_*.parquet"))
Candidates(kit_id, dir) ==
  SelectSeq(dir.files, LAMBDA f : f.kit = kit_id /\ f.ext = "csv")
  \o SelectSeq(dir.files, LAMBDA f : f.kit = kit_id /\ f.ext = "parquet")

\* max(candidates, key=lambda p: p.stat().st_mtime): the first of the newest
OldestFile(cands) ==
  cands[CHOOSE i \in 1..Len(cands) :
          /\ \A j \in 1..Len(cands) : cands[i].mtime <= cands[j].mtime
          /\ \A j \in 1..(i - 1) : cands[i].mtime < cands[j].mtime]
LatestFile(cands) ==
  cands[CHOOSE i \in 1..Len(cands) :
          /\ \A j \in 1..Len(cands) : cands[j].mtime <= cands[i].mtime
          /\ \A j \in 1..(i - 1) : cands[j].mtime < cands[i].mtime]

\* "for col in missing: df[col] = None" and the selection of the five columns
FillColumns(file) ==
  [i \in 1..Len(file.rows) |->
     [c \in Columns |-> IF c \in file.columns THEN file.rows[i][c] ELSE Null]]

load_cached_kit_dataframe(kit_id, dir) ==
  IF ~dir.exists THEN <<>>
  ELSE IF Candidates(kit_id, dir) = <<>> THEN <<>>
  ELSE LET path == LatestFile(Candidates(kit_id, dir))
       IN IF ~path.readable THEN <<>> ELSE Normalize(FillColumns(path))

\* src/utils.py: the columns of the frame of the early return
UtilsColumns == Columns \cup {"_raw"}
\* src/utils.py: pd.DataFrame(rows) takes its columns from the keys of the
\* row dicts, and has none when there is no row
RowsColumns(rows) == IF rows = <<>> THEN {} ELSE UtilsColumns

\* src/api_call.py: "if df.empty:" the cached frame is asked for
AlwaysFallBack(df) == TRUE
FallsBack(df) == df = <<>>

(***************************************************************************)
(* One call get_kit_measurements_df(kit_id, sensors, max_pages=max_pages). *)
(***************************************************************************)
VARIABLES
  impl,         \* "api_call" or "utils": the module the function is taken from
  kit_id,       \* argument
  sensors,      \* argument: given is FALSE for None
  max_pages,    \* argument (utils: the default of _paginate)
  pc,           \* "start", "lookup", "fetch", "cache", "returned", "raised"
  sensor_list,  \* local of get_kit_measurements_df
  si,           \* position of "for sname in sensor_list" (1-based)
  cursor,       \* local of _paginate
  pages,        \* local of _paginate
  q_cursor,     \* q["page[cursor]"] of _paginate, Absent while the key is unset
  rows,         \* local of get_kit_measurements_df
  df,           \* the frame built from rows
  result,       \* the frame returned
  kit_lookups,  \* number of GET {base}/kits/{id} issued
  env_read,     \* the KITS_SENSORS value the call read, if it read one
  queried,      \* sensor names of the measurement endpoints requested, in order
  served,       \* the raw items the service handed out, with their endpoint
                \* and with what the loop body made of each
  ep,           \* requests and pages of the _paginate generator started last
  cache_dir,    \* the data directory load_cached_kit_dataframe saw, if called
  discovered,   \* the sensor names the metadata lookup gave, if it was made
  error,        \* the call that raised out of get_kit_measurements_df, if any
  df_columns    \* df.columns of the frame built or returned last

fetch_vars ==
  <<impl, kit_id, sensors, max_pages, pc, sensor_list, si, cursor, pages,
    q_cursor, rows, df, result, kit_lookups, env_read, queried, served,
    ep, cache_dir, discovered, error, df_columns>>

\* src/api_call.py main(): the command line run around one call
VARIABLES
  cli           \* the output format, whether the file was written, the exit

\* src/genai.py generate_genai_image: one call
VARIABLES
  g_pc,         \* "idle", "start", "loop", "returned"
  attempt,      \* the loop variable of "for attempt in range(1, 6)"
  output_image, \* local: 0 for None, k for the image decoded in attempt k
  last_error,   \* local: 0 for None, k for the exception of attempt k
  g_log,        \* the requests issued and the waits taken, in order
  g_result      \* the value returned: 0 for None, k for the image of attempt k

genai_vars == <<g_pc, attempt, output_image, last_error, g_log, g_result>>

\* src/app.py create_app: the page in one browser
VARIABLES
  kit_input,     \* value of the "Kit ID" number field: 0 when it is blank
  refresh_btn,   \* the Refresh button is interactive
  df_state,      \* gr.State: the frame stored, and the kit it was fetched for
  load_chain,    \* position of the chain started by app.load
  change_chains, \* the chains started by kit_input.change, oldest first
  rendered,      \* what get_both_images was last called with, and by whom
  n_changes,     \* kit changes made so far
  n_clicks       \* Refresh clicks made so far

app_vars == <<kit_input, refresh_btn, df_state, load_chain, change_chains,
              rendered, n_changes, n_clicks>>

vars == <<fetch_vars, cli, genai_vars, app_vars>>

\* main() has not run
CliIdle == cli = [ran |-> FALSE, format |-> "none", attempted |-> FALSE,
                  written |-> FALSE, uncaught |-> FALSE, exit |-> 0]
\* generate_genai_image is not called
GenaiIdle ==
  /\ g_pc = "idle"
  /\ attempt = 1
  /\ output_image = 0
  /\ last_error = 0
  /\ g_log = <<>>
  /\ g_result = 0
\* no page is open
NoFrame == [loaded |-> FALSE, kit |-> 0]
AppIdle ==
  /\ kit_input = 1001
  /\ refresh_btn = TRUE
  /\ df_state = NoFrame
  /\ load_chain = [at |-> "idle", kit |-> 0]
  /\ change_chains = <<>>
  /\ rendered = [by |-> "none", kit |-> 0, df |-> NoFrame, settled |-> FALSE]
  /\ n_changes = 0
  /\ n_clicks = 0

KitIds == {1001}
\* every sensor name a call can come to query
SensorUniverse ==
  {Str("ftTemp"), Str("gbHum"), Str("NH3"), Str("C3H8"), Str("CO")}

\* ProcessPage, tabulated over the pages the remote service sends
ProcessedPages ==
  [imp \in {"api_call", "utils"} |-> [kit \in KitIds |->
     [sname \in SensorUniverse |-> [page \in Pages \cup MorePages |->
        ProcessPage(imp, kit, sname, page)]]]]
\* load_cached_kit_dataframe, tabulated over the data directories
CachedFrames ==
  [kit \in KitIds |-> [dir \in DataDirs |->
     load_cached_kit_dataframe(kit, dir)]]

SensorArgs ==
  {[given |-> FALSE, list |-> <<>>],
   [given |-> TRUE, list |-> <<Str("")>>],
   [given |-> TRUE, list |-> <<Str("ftTemp")>>],
   [given |-> TRUE, list |-> <<Str("gbHum"), Str(""), Str("ftTemp")>>]}

\*   sent: the query parameters of its latest request
\*   answered: the next_cursor of its latest response, Absent if it gave
\*             none that a further request can carry
\*   expected: the next_cursor of the response before the latest request
NoParams == [size |-> Absent, cursor |-> Absent]
NoEndpoint == [requests |-> 0, yielded |-> 0, first_no_cursor |-> FALSE,
               all_cursor |-> TRUE, exhausted |-> FALSE,
               sent |-> NoParams, answered |-> Absent, expected |-> Absent]
NotRead == [read |-> FALSE, value |-> <<>>]
NoLookup == [made |-> FALSE, names |-> <<>>]
NotCalled == [called |-> FALSE, dir |-> [exists |-> FALSE, files |-> <<>>]]

\* the locals and the records of a call that has not taken a step
FetchLocals ==
  /\ sensor_list = <<>>
  /\ si = 1
  /\ cursor = Null
  /\ pages = 0
  /\ q_cursor = Absent
  /\ rows = <<>>
  /\ df = <<>>
  /\ result = <<>>
  /\ kit_lookups = 0
  /\ env_read = NotRead
  /\ queried = <<>>
  /\ served = <<>>
  /\ ep = NoEndpoint
  /\ cache_dir = NotCalled
  /\ discovered = NoLookup
  /\ error = "none"
  /\ df_columns = {}

Init ==
  /\ impl \in {"api_call", "utils"}
  /\ kit_id \in KitIds
  /\ sensors \in SensorArgs
  /\ max_pages \in {1, MaxPages}
  /\ pc = "start"
  /\ FetchLocals
  /\ CliIdle /\ GenaiIdle /\ AppIdle

\* no call of get_kit_measurements_df is under way
FetchIdle ==
  /\ impl = "utils"
  /\ kit_id = 1001
  /\ sensors = [given |-> FALSE, list |-> <<>>]
  /\ max_pages = 1
  /\ pc = "idle"
  /\ FetchLocals

\* the metadata lookup is made
\*   api_call: "if not sensor_list:"   utils: "if sensors is None:"
AlwaysLooksUp(imp, arg) == TRUE
LooksUp(imp, arg) ==
  IF imp = "api_call" THEN NonEmpty(arg.list) = <<>> ELSE ~arg.given

\* the head of get_kit_measurements_df: the sensors argument
\*   api_call: sensor_list = [s for s in (sensors or []) if s]
\*   utils:    if sensors is None: ... else: sensor_list = [s for s in sensors if s]
ResolveArgument ==
  /\ pc = "start"
  /\ sensor_list' = NonEmpty(sensors.list)
  /\ pc' = IF LooksUp(impl, sensors) THEN "lookup" ELSE "fetch"
  /\ UNCHANGED <<impl, kit_id, sensors, max_pages, si, cursor, pages, q_cursor,
                 rows, df, result, kit_lookups, env_read, queried, served, ep,
                 cache_dir, discovered, error, df_columns>>
  /\ UNCHANGED <<cli, genai_vars, app_vars>>

\* src/api_call.py: the env override and the built-in default
ApiFallbackList(names, env) ==
  IF names # <<>> THEN names
  ELSE IF EnvIsSet(env) /\ EnvSensors(env) # <<>> THEN EnvSensors(env)
  ELSE DefaultSensors

\* sensor discovery: get_kit_info and what the caller makes of its result
DiscoverSensors ==
  /\ pc = "lookup"
  /\ \E resp \in KitResponses, env \in EnvValues :
       LET info == get_kit_info(resp)
           \* kit.get(...) on a "data" that is neither a dict nor falsy
           raises == \/ info.outcome = "raise"
                     \/ info.outcome = "data" /\ info.data.kind = "other"
           no_kit == \/ info.outcome = "None"
                     \/ info.outcome = "data" /\ info.data.kind = "empty"
           names == IF no_kit THEN <<>>
                    ELSE SensorNames(impl, info.data.sensors)
           reads_env == impl = "api_call" /\ ~raises /\ names = <<>>
       IN /\ kit_lookups' = kit_lookups + 1
          /\ (reads_env \/ env = <<>>)
          /\ env_read' = IF reads_env THEN [read |-> TRUE, value |-> env]
                         ELSE env_read
          /\ IF raises
             THEN /\ pc' = "raised"
                  /\ error' = IF info.outcome = "raise"
                               THEN "get_kit_info: body.get"
                               ELSE "get_kit_measurements_df: kit.get"
                  /\ UNCHANGED <<sensor_list, discovered>>
             ELSE /\ discovered' = [made |-> TRUE, names |-> names]
                  /\ error' = error
                  /\ IF impl = "api_call"
                     THEN /\ pc' = "fetch"
                          /\ sensor_list' = ApiFallbackList(names, env)
                     ELSE \* utils: "if not kit: return pd.DataFrame(...)"
                          /\ pc' = IF no_kit THEN "returned" ELSE "fetch"
                          /\ sensor_list' = names
          /\ df_columns' = IF impl = "utils" /\ ~raises /\ no_kit
                           THEN UtilsColumns ELSE df_columns
  /\ UNCHANGED <<impl, kit_id, sensors, max_pages, si, cursor, pages, q_cursor,
                 rows, df, result, queried, served, ep, cache_dir>>
  /\ UNCHANGED <<cli, genai_vars, app_vars>>

\* one requests.get of _paginate for the endpoint of sensor_list[si], the
\* caller's use of the page it yields, and the rest of the loop turn
PageRequest ==
  /\ pc = "fetch"
  /\ si <= Len(sensor_list)
  /\ \E resp \in MeasurementResponses :
       LET sname == sensor_list[si]
           turn == PaginateTurn(resp)
           page == Yielded(resp)
           used == ProcessedPages[impl][kit_id][sname][page]
           \* meta.get on a "meta" that is null
           meta_raises == resp.meta.kind = "null"
           raises == \/ turn = "raise"
                     \/ turn = "yield" /\ (used.raised \/ meta_raises)
           goes_on == /\ turn = "yield"
                      /\ ContinuePaging(NextCursor(resp), pages + 1, max_pages)
           \* a generator is created when the one before it is exhausted
           gen == IF ep.exhausted THEN NoEndpoint ELSE ep
           q == [size |-> PageSize, cursor |-> CursorParam(cursor, q_cursor)]
           now == [requests |-> gen.requests + 1,
                   yielded |-> gen.yielded + (IF turn = "yield" THEN 1 ELSE 0),
                   first_no_cursor |->
                     IF gen.requests = 0
                     THEN turn = "yield" /\ ~Truthy(NextCursor(resp))
                     ELSE gen.first_no_cursor,
                   all_cursor |-> /\ gen.all_cursor
                                  /\ turn = "yield"
                                  /\ Truthy(NextCursor(resp)),
                   exhausted |-> ~raises /\ ~goes_on,
                   sent |-> q,
                   answered |-> IF turn = "yield" /\ Truthy(NextCursor(resp))
                                THEN NextCursor(resp) ELSE Absent,
                   expected |-> gen.answered]
       IN /\ Len(served) + Len(IF turn = "yield" THEN page ELSE <<>>) <= MaxItems
          /\ q_cursor' = IF raises \/ ~goes_on THEN Absent ELSE q.cursor
          /\ queried' = IF gen.requests = 0 THEN Append(queried, sname)
                        ELSE queried
          /\ served' = IF turn = "yield"
                       THEN served \o [i \in 1..Len(page) |->
                                         [sensor |-> sname, item |-> page[i],
                                          out |-> used.done[i]]]
                       ELSE served
          /\ rows' = IF turn = "yield" /\ ~used.raised THEN rows \o used.rows
                     ELSE rows
          /\ error' = CASE turn = "raise" -> "_paginate: payload.get"
                         [] turn = "yield" /\ used.raised ->
                              IF impl = "api_call"
                              THEN "get_kit_measurements_df: attrs.get"
                              ELSE "get_kit_measurements_df: rec.update"
                         [] turn = "yield" /\ meta_raises ->
                              "_paginate: meta.get"
                         [] OTHER -> error
          /\ ep' = now
          /\ IF raises
             THEN /\ pc' = "raised"
                  /\ UNCHANGED <<si, cursor, pages>>
             ELSE IF goes_on
             THEN /\ cursor' = NextCursor(resp)
                  /\ pages' = pages + 1
                  /\ UNCHANGED <<pc, si>>
             ELSE \* the generator is exhausted: on to the next sensor
                  /\ si' = si + 1
                  /\ cursor' = Null
                  /\ pages' = 0
                  /\ UNCHANGED pc
  /\ UNCHANGED <<impl, kit_id, sensors, max_pages, sensor_list, df, result,
                 kit_lookups, env_read, cache_dir, discovered, df_columns>>
  /\ UNCHANGED <<cli, genai_vars, app_vars>>

\* the tail of get_kit_measurements_df: the frame, and the return of it unless
\* (api_call) it is empty
BuildFrame ==
  /\ pc = "fetch"
  /\ si > Len(sensor_list)
  /\ df' = IF impl = "api_call" THEN ApiFrame(rows) ELSE UtilsFrame(rows)
  /\ df_columns' = IF impl = "api_call" THEN Columns ELSE RowsColumns(rows)
  /\ IF impl = "api_call" /\ FallsBack(df')
     THEN pc' = "cache" /\ UNCHANGED result
     ELSE pc' = "returned" /\ result' = df'
  /\ UNCHANGED <<impl, kit_id, sensors, max_pages, sensor_list, si, cursor,
                 pages, q_cursor, rows, kit_lookups, env_read, queried, served,
                 ep, cache_dir, discovered, error>>
  /\ UNCHANGED <<cli, genai_vars, app_vars>>

\* src/api_call.py: cached = load_cached_kit_dataframe(kit_id);
\*                  if not cached.empty: return cached;  return df
LoadCache ==
  /\ pc = "cache"
  /\ \E dir \in DataDirs :
       LET cached == CachedFrames[kit_id][dir]
       IN /\ cache_dir' = [called |-> TRUE, dir |-> dir]
          /\ result' = IF cached # <<>> THEN cached ELSE df
          /\ df_columns' = Columns
  /\ pc' = "returned"
  /\ UNCHANGED <<impl, kit_id, sensors, max_pages, sensor_list, si, cursor,
                 pages, q_cursor, rows, df, kit_lookups, env_read, queried,
                 served, ep, discovered, error>>
  /\ UNCHANGED <<cli, genai_vars, app_vars>>

Next == ResolveArgument \/ DiscoverSensors \/ PageRequest \/ BuildFrame
        \/ LoadCache

Spec == Init /\ [][Next]_vars

\* The calls with an explicit sensor list, which go straight to pagination.
\* The code is sequential and every requests.get returns or times out after
\* 30 seconds, so a call that can take a step takes it.
InitExplicit == Init /\ ~LooksUp(impl, sensors)
NextExplicit == ResolveArgument \/ PageRequest \/ BuildFrame \/ LoadCache
PaginateSpec ==
  InitExplicit /\ [][NextExplicit]_vars /\ WF_vars(NextExplicit)

(***************************************************************************)
(* src/api_call.py main(): the call, then the output file.                 *)
(***************************************************************************)
\* what writing the output comes to
\*   "mkdir": out_path.parent.mkdir raises    "ok": the file is written
\*   "ImportError": no Parquet engine         "Exception": any other failure
WriteOutcomes == {"ok", "mkdir", "ImportError", "Exception"}

\* the tail of main() from "out_path.parent.mkdir": the exit status is the
\* value returned, or 1 when an exception leaves main() (raise SystemExit(main()))
MainExit(fmt, outcome) ==
  [ran |-> TRUE, format |-> fmt,
   attempted |-> TRUE,
   written |-> outcome = "ok",
   uncaught |-> outcome = "mkdir" \/ (fmt = "csv" /\ outcome = "Exception"),
   exit |-> IF outcome = "ok" THEN 0 ELSE 1]

\* main() after get_kit_measurements_df returned a frame
WriteOutput ==
  /\ pc = "returned"
  /\ impl = "api_call"
  /\ ~cli.ran
  /\ \E fmt \in {"csv", "parquet"}, outcome \in WriteOutcomes :
       /\ (fmt = "csv" => outcome # "ImportError")
       /\ cli' = MainExit(fmt, outcome)
  /\ UNCHANGED <<fetch_vars, genai_vars, app_vars>>

\* main() when get_kit_measurements_df raised: nothing catches the exception
UncaughtExit ==
  /\ pc = "raised"
  /\ impl = "api_call"
  /\ ~cli.ran
  /\ cli' = [ran |-> TRUE, format |-> "none", attempted |-> FALSE,
             written |-> FALSE, uncaught |-> TRUE, exit |-> 1]
  /\ UNCHANGED <<fetch_vars, genai_vars, app_vars>>

\* the command line run with --sensors, which goes straight to pagination
InitMain == Init /\ impl = "api_call" /\ ~LooksUp(impl, sensors)
NextMain == ResolveArgument \/ PageRequest \/ BuildFrame \/ LoadCache
            \/ WriteOutput \/ UncaughtExit
MainSpec == InitMain /\ [][NextMain]_vars

(***************************************************************************)
(* src/genai.py generate_genai_image: the retry loop.                      *)
(***************************************************************************)
\* what one pass of the loop body meets
\*   "request_error":    client.models.generate_content raises
\*   "bad_response":     reading the parts raises before an image is decoded
\*   "no_image":         the parts are read through, none is an image
\*   "image":            the parts are read through, one is an image
\*   "image_then_error": an image part is decoded, a later part raises
AttemptOutcomes ==
  {"request_error", "bad_response", "no_image", "image", "image_then_error"}

\* range(1, 6)
LastAttempt == 5
\* time.sleep(2)
Delay == 2

Request(k, outcome) ==
  [kind |-> "request", attempt |-> k, outcome |-> outcome, seconds |-> 0]
Sleep(k) ==
  [kind |-> "sleep", attempt |-> k, outcome |-> "none", seconds |-> Delay]

\* the pass ends in time.sleep(2): "if attempt < 5" in both except clauses,
\* "if output_image is None and attempt < 5" at the end of the body
WaitsAfterLast(k, outcome) == outcome # "image"
Waits(k, outcome) == outcome # "image" /\ k < LastAttempt

\* output_image after the pass: a failed request leaves it as it was, the
\* second try block sets it to None and then to each image it decodes
ImageAfter(k, outcome, before) ==
  CASE outcome = "request_error" -> before
    [] outcome \in {"image", "image_then_error"} -> k
    [] OTHER -> 0

\* last_error after the pass
ErrorAfter(k, outcome, before) ==
  IF outcome \in {"request_error", "bad_response", "image_then_error"}
  THEN k ELSE before

\* the head of generate_genai_image: without an input image it returns None
ResolveInput ==
  /\ g_pc = "start"
  /\ \E img \in {"image", "None"} :
       IF img = "None"
       THEN g_pc' = "returned" /\ g_result' = 0
       ELSE g_pc' = "loop" /\ UNCHANGED g_result
  /\ UNCHANGED <<attempt, output_image, last_error, g_log>>
  /\ UNCHANGED <<fetch_vars, cli, app_vars>>

\* one pass of "for attempt in range(1, 6)"
Attempt ==
  /\ g_pc = "loop"
  /\ \E outcome \in AttemptOutcomes :
       /\ output_image' = ImageAfter(attempt, outcome, output_image)
       /\ last_error' = ErrorAfter(attempt, outcome, last_error)
       /\ g_log' = g_log \o <<Request(attempt, outcome)>>
                     \o (IF Waits(attempt, outcome) THEN <<Sleep(attempt)>>
                         ELSE <<>>)
       /\ IF outcome = "image" \/ attempt = LastAttempt
          THEN g_pc' = "after" /\ UNCHANGED attempt
          ELSE g_pc' = "loop" /\ attempt' = attempt + 1
  /\ UNCHANGED g_result
  /\ UNCHANGED <<fetch_vars, cli, app_vars>>

\* "return output_image"
ReturnImage ==
  /\ g_pc = "after"
  /\ g_result' = output_image
  /\ g_pc' = "returned"
  /\ UNCHANGED <<attempt, output_image, last_error, g_log>>
  /\ UNCHANGED <<fetch_vars, cli, app_vars>>

InitGenai ==
  /\ FetchIdle /\ CliIdle /\ AppIdle
  /\ g_pc = "start"
  /\ attempt = 1
  /\ output_image = 0
  /\ last_error = 0
  /\ g_log = <<>>
  /\ g_result = 0
NextGenai == ResolveInput \/ Attempt \/ ReturnImage
GenaiSpec == InitGenai /\ [][NextGenai]_vars

(***************************************************************************)
(* src/app.py create_app: the event chains of the page.  Every callback is *)
(* a round trip to the server: a chain's next step is sent with the input  *)
(* values the page shows when the step before it has come back, and one    *)
(* listener runs one call at a time, in the order the calls came in.       *)
(***************************************************************************)
\* what the user can put into the "Kit ID" field; 0 is the blank field
KitValues == {0, 1001, 1002}

\* _prepare_data: kit = 1001, replaced by int(kit_id) unless kit_id is None
KitOf(value) == IF value = 0 THEN 1001 ELSE value

\* what get_kit_measurements_df(kit) comes to inside _prepare_data
FetchOutcomes == {"rows", "empty", "raise"}

\* the (refresh_btn, df_state) outputs of _prepare_data
PrepareOutputs(kit, outcome) ==
  IF outcome = "rows"
  THEN [interactive |-> TRUE, df |-> [loaded |-> TRUE, kit |-> kit]]
  ELSE [interactive |-> FALSE, df |-> NoFrame]

\* every chain that was started has run its _disable_refresh
DisablesDone ==
  /\ load_chain.at # "disable"
  /\ \A i \in 1..Len(change_chains) : change_chains[i].at # "disable"

\* app.load(_disable_refresh), and the sending of its .then(_prepare_data)
LoadDisable ==
  /\ load_chain.at = "disable"
  /\ refresh_btn' = FALSE
  /\ load_chain' = [at |-> "fetching", kit |-> KitOf(kit_input)]
  /\ UNCHANGED <<kit_input, df_state, change_chains, rendered, n_changes,
                 n_clicks>>
  /\ UNCHANGED <<fetch_vars, cli, genai_vars>>

\* _prepare_data of the load chain comes back
LoadPrepared ==
  /\ load_chain.at = "fetching"
  /\ \E outcome \in FetchOutcomes :
       LET out == PrepareOutputs(load_chain.kit, outcome)
       IN /\ refresh_btn' = out.interactive
          /\ df_state' = out.df
  /\ load_chain' = [load_chain EXCEPT !.at = "images"]
  /\ UNCHANGED <<kit_input, change_chains, rendered, n_changes, n_clicks>>
  /\ UNCHANGED <<fetch_vars, cli, genai_vars>>

\* .then(get_both_images, inputs=[kit_input, df_state]) of the load chain
LoadImages ==
  /\ load_chain.at = "images"
  /\ rendered' = [by |-> "load", kit |-> kit_input, df |-> df_state,
                  settled |-> DisablesDone]
  /\ load_chain' = [load_chain EXCEPT !.at = "done"]
  /\ UNCHANGED <<kit_input, refresh_btn, df_state, change_chains, n_changes,
                 n_clicks>>
  /\ UNCHANGED <<fetch_vars, cli, genai_vars>>

\* the user puts another value into the kit field: kit_input.change fires
ChangeKit ==
  /\ n_changes < MaxChanges
  /\ \E value \in KitValues \ {kit_input} : kit_input' = value
  /\ change_chains' = Append(change_chains, [at |-> "disable", kit |-> 0])
  /\ n_changes' = n_changes + 1
  /\ UNCHANGED <<refresh_btn, df_state, load_chain, rendered, n_clicks>>
  /\ UNCHANGED <<fetch_vars, cli, genai_vars>>

\* kit_input.change(_disable_refresh), and the sending of its
\* .then(_prepare_data, inputs=[kit_input])
ChangeDisable ==
  /\ \E i \in 1..Len(change_chains) :
       /\ change_chains[i].at = "disable"
       /\ \A j \in 1..(i - 1) : change_chains[j].at # "disable"
       /\ change_chains' = [change_chains EXCEPT
             ![i] = [at |-> "queued", kit |-> KitOf(kit_input)]]
  /\ refresh_btn' = FALSE
  /\ UNCHANGED <<kit_input, df_state, load_chain, rendered, n_changes,
                 n_clicks>>
  /\ UNCHANGED <<fetch_vars, cli, genai_vars>>

\* the server starts the oldest waiting _prepare_data of the change listener
ChangeFetch ==
  /\ \E i \in 1..Len(change_chains) :
       /\ change_chains[i].at = "queued"
       /\ \A j \in 1..Len(change_chains) : change_chains[j].at # "fetching"
       /\ \A j \in 1..(i - 1) : change_chains[j].at # "queued"
       /\ change_chains' = [change_chains EXCEPT ![i].at = "fetching"]
  /\ UNCHANGED <<kit_input, refresh_btn, df_state, load_chain, rendered,
                 n_changes, n_clicks>>
  /\ UNCHANGED <<fetch_vars, cli, genai_vars>>

\* _prepare_data of a change chain comes back; the chain has no further step
ChangePrepared ==
  /\ \E i \in 1..Len(change_chains) : \E outcome \in FetchOutcomes :
       LET out == PrepareOutputs(change_chains[i].kit, outcome)
       IN /\ change_chains[i].at = "fetching"
          /\ refresh_btn' = out.interactive
          /\ df_state' = out.df
          /\ change_chains' =
               SubSeq(change_chains, 1, i - 1)
               \o SubSeq(change_chains, i + 1, Len(change_chains))
  /\ UNCHANGED <<kit_input, load_chain, rendered, n_changes, n_clicks>>
  /\ UNCHANGED <<fetch_vars, cli, genai_vars>>

\* refresh_btn.click(get_both_images, inputs=[kit_input, df_state])
ClickRefresh ==
  /\ refresh_btn
  /\ n_clicks < MaxClicks
  /\ rendered' = [by |-> "click", kit |-> kit_input, df |-> df_state,
                  settled |-> DisablesDone]
  /\ n_clicks' = n_clicks + 1
  /\ UNCHANGED <<kit_input, refresh_btn, df_state, load_chain, change_chains,
                 n_changes>>
  /\ UNCHANGED <<fetch_vars, cli, genai_vars>>

\* the page has just been opened: app.load fires
InitApp ==
  /\ FetchIdle /\ CliIdle /\ GenaiIdle
  /\ kit_input = 1001
  /\ refresh_btn = TRUE
  /\ df_state = NoFrame
  /\ load_chain = [at |-> "disable", kit |-> 0]
  /\ change_chains = <<>>
  /\ rendered = [by |-> "none", kit |-> 0, df |-> NoFrame, settled |-> FALSE]
  /\ n_changes = 0
  /\ n_clicks = 0
NextApp == LoadDisable \/ LoadPrepared \/ LoadImages \/ ChangeKit
           \/ ChangeDisable \/ ChangeFetch \/ ChangePrepared \/ ClickRefresh
AppSpec == InitApp /\ [][NextApp]_vars

(***************************************************************************)
(* Properties.                                                             *)
(***************************************************************************)
Returned == pc = "returned"
\* the supplied sensor names that are not empty
SuppliedNames == SelectSeq(sensors.list, LAMBDA s : s # Str(""))
IsPrefix(a, b) == Len(a) <= Len(b) /\ a = SubSeq(b, 1, Len(a))
Count(seq, P(_)) == Cardinality({i \in 1..Len(seq) : P(seq[i])})

\* C1: every row of the returned collection has a non-null timestamp, whether
\* the collection is the live one or the cached one
C1_NoNullTimestamp ==
  Returned => \A i \in 1..Len(result) : result[i].timestamp # NaT

\* the request and page counts of a _paginate generator, running or exhausted
PaginateCounts ==
  /\ ep.requests <= max_pages
  /\ ep.yielded <= ep.requests
  /\ ep.first_no_cursor =>
       ep.requests = 1 /\ ep.yielded = 1 /\ (ep.exhausted \/ pc = "raised")
  /\ (ep.requests > 0 /\ ep.all_cursor) =>
       /\ ep.yielded = ep.requests
       /\ ep.exhausted => ep.requests = max_pages
       /\ (~ep.exhausted /\ pc # "raised") => ep.requests < max_pages
\* C2: _paginate always terminates: every call comes to its end, no generator
\* issues more than max_pages requests, one whose first response carries no
\* next_cursor ends after exactly one request and one page, and one that gets
\* a next_cursor with every response (the same one each time included) ends
\* after exactly max_pages requests and max_pages pages
C2_PaginateTerminates ==
  []PaginateCounts /\ <>(pc \in {"returned", "raised"})
\* a generator that was handed a cursor every time has stopped at the bound
C2_Witness ==
  /\ max_pages = MaxPages
  /\ ep.exhausted
  /\ ep.all_cursor
  /\ ep.requests = MaxPages
  /\ ep.yielded = MaxPages

\* C3: with an empty live collection and at least one cached snapshot of the
\* kit, the result is the normalized content of a snapshot of the kit that no
\* other snapshot of the kit is newer than (nothing, if it cannot be read)
C3_CacheIsLatestSnapshot ==
  (Returned /\ cache_dir.called
   /\ \E i \in 1..Len(cache_dir.dir.files) : cache_dir.dir.files[i].kit = kit_id)
  => /\ df = <<>>
     /\ \E i \in 1..Len(cache_dir.dir.files) :
          LET f == cache_dir.dir.files[i]
          IN /\ f.kit = kit_id
             /\ \A j \in 1..Len(cache_dir.dir.files) :
                  cache_dir.dir.files[j].kit = kit_id
                  => cache_dir.dir.files[j].mtime <= f.mtime
             /\ result = IF f.readable THEN Normalize(FillColumns(f)) ELSE <<>>
     /\ \A k \in 1..Len(result) :
          /\ DOMAIN result[k] = Columns
          /\ result[k].timestamp \in 1..3
          /\ result[k].value.kind \in {"num", "nan"}
          /\ \A l \in 1..(k - 1) : ~RowLess(result[k], result[l])
\* the live attempt was handed items, kept none, and an older and a newer
\* snapshot of the kit were there
C3_Witness ==
  /\ Returned /\ cache_dir.called
  /\ served # <<>>
  /\ result # <<>>
  /\ \E i, j \in 1..Len(cache_dir.dir.files) :
       /\ cache_dir.dir.files[i].kit = kit_id
       /\ cache_dir.dir.files[j].kit = kit_id
       /\ cache_dir.dir.files[i].mtime < cache_dir.dir.files[j].mtime
       /\ cache_dir.dir.files[i].rows # cache_dir.dir.files[j].rows

\* C4: the cache is asked only when the assembled live collection is empty;
\* a non-empty live collection is returned as it is
C4_CacheOnlyWhenLiveEmpty ==
  /\ (pc = "cache" \/ cache_dir.called) => df = <<>> /\ impl = "api_call"
  /\ (Returned /\ df # <<>>) => ~cache_dir.called /\ result = df
  /\ (Returned /\ result # <<>> /\ ~cache_dir.called) =>
       \A i \in 1..Len(result) :
         \E j \in 1..Len(served) : served[j].sensor = result[i].sensor
\* a live collection with rows was returned by api_call
C4_Witness ==
  Returned /\ impl = "api_call" /\ df # <<>> /\ result = df

\* C5: no response to a measurements request makes the fetch raise
C5_FetchNeverRaises ==
  error \notin {"_paginate: payload.get", "_paginate: meta.get"}

\* C6: get_kit_info never raises to its caller
C6_KitInfoNeverRaises ==
  error # "get_kit_info: body.get"

C8_FallbackSensors ==
  (Returned /\ ~sensors.given /\ discovered.names = <<>>) =>
     /\ queried # <<>>
     /\ queried = IF env_read.value = <<" NH3", "", "CO ">>
                  THEN <<Str("NH3"), Str("CO")>>
                  ELSE <<Str("ftTemp"), Str("gbHum"), Str("NH3"), Str("C3H8"),
                         Str("CO")>>

\* C9: every returned row, a cached one included, carries the requested kit id
\* and a sensor that is a non-empty string
C9_RowsOfRequestedKit ==
  Returned => \A i \in 1..Len(result) :
                /\ result[i].kit_id = Num(kit_id)
                /\ result[i].sensor.kind = "str"
                /\ result[i].sensor.str # ""

\* an item carries some timestamp alias (resp. value alias) that is not null
HasAlias(item, keys) ==
  /\ item.kind = "dict"
  /\ \E i \in 1..Len(keys) :
       \/ item.f[keys[i]].kind \notin {"absent", "null"}
       \/ /\ item.attributes.kind = "dict"
          /\ item.attributes.f[keys[i]].kind \notin {"absent", "null"}
Unresolvable(s) == ~HasAlias(s.item, TsKeys) \/ ~HasAlias(s.item, ValKeys)
\* an item with a parseable timestamp and a number other than 0 as its value
WellFormed(s) ==
  /\ s.item.kind = "dict" /\ s.item.attributes.kind \in {"absent", "dict"}
  /\ \E i \in 1..Len(TsKeys) :
       \/ to_datetime(s.item.f[TsKeys[i]]) # NaT
       \/ to_datetime(s.item.attributes.f[TsKeys[i]]) # NaT
  /\ \E i \in 1..Len(ValKeys) :
       \/ Truthy(s.item.f[ValKeys[i]])
       \/ Truthy(s.item.attributes.f[ValKeys[i]])

\* C10: an item without a resolvable timestamp or value gives no row of the
\* live collection, and the items around it still give theirs
C10_UnresolvableItemsDropped ==
  (pc \in {"cache", "returned"}) =>
     /\ Len(df) <= Len(served) - Count(served, Unresolvable)
     /\ Len(df) >= Count(served, WellFormed)

\* the value an item carries for a logical field: the first alias, in the
\* fixed order, that "attributes" has, and else the first the top level has
Carried(item, keys) ==
  LET both == (IF item.attributes.kind = "dict"
               THEN Lookup(item.attributes.f, keys) ELSE <<>>)
              \o Lookup(item.f, keys)
  IN IF \E i \in 1..Len(both) : both[i] # Null
     THEN both[CHOOSE i \in 1..Len(both) :
                 both[i] # Null /\ \A j \in 1..(i - 1) : both[j] = Null]
     ELSE Null

\* C11: a record is built from the timestamp and the value the item carries,
\* "attributes" before the top level and the aliases in their fixed order, so
\* an item carrying both yields its record whichever alias and level has them
C11_AttributesThenAliases ==
  \A i \in 1..Len(served) :
    LET s == served[i]
        ts == Carried(s.item, TsKeys)
        val == Carried(s.item, ValKeys)
    IN /\ (s.out.outcome = "row" /\ ts # Null) => s.out.row.timestamp = ts
       /\ (s.out.outcome \in {"row", "skip"} /\ ts # Null /\ Truthy(val))
            => s.out.outcome = "row" /\ s.out.row.value = val

\* the rows of a frame for one sensor and one instant, as (value, unit) pairs;
\* Instant(_) reads the instant of a row
SameKey(frame, sensor, instant, Instant(_)) ==
  LET keyed == SelectSeq(frame, LAMBDA r :
                 r.sensor = sensor /\ Instant(r) = instant)
  IN [i \in 1..Len(keyed) |-> <<to_numeric(keyed[i].value), keyed[i].unit>>]
Parsed(r) == r.timestamp
Unparsed(r) == to_datetime(r.timestamp)

\* C12: the returned collection ascends by sensor name and, within a sensor,
\* by timestamp (rows without an instant behind the others), and the rows of
\* a live collection with equal sensor and timestamp stand in the order in
\* which the pages delivered them
C12_CanonicalOrder ==
  Returned =>
    /\ \A k \in 1..Len(result) : \A l \in (k + 1)..Len(result) :
         \/ SensorRank(result[k].sensor) < SensorRank(result[l].sensor)
         \/ /\ result[k].sensor = result[l].sensor
            /\ \/ result[l].timestamp = NaT
               \/ /\ result[k].timestamp # NaT
                  /\ result[k].timestamp <= result[l].timestamp
    /\ ~cache_dir.called =>
         \A n \in 1..Len(sensor_list) : \A t \in 1..3 :
           SameKey(result, sensor_list[n], t, Parsed)
             = SameKey(rows, sensor_list[n], t, Unparsed)
\* a live collection whose rows arrived out of order, two of them with the
\* same sensor and instant and different units
C12_Witness ==
  /\ Returned /\ ~cache_dir.called
  /\ \E i \in 1..Len(rows) : \E j \in (i + 1)..Len(rows) :
       /\ rows[i].sensor = rows[j].sensor
       /\ to_datetime(rows[j].timestamp) # NaT
       /\ to_datetime(rows[j].timestamp) < to_datetime(rows[i].timestamp)
  /\ \E k \in 1..Len(result) : \E l \in (k + 1)..Len(result) :
       /\ result[k].sensor = result[l].sensor
       /\ result[k].timestamp = result[l].timestamp
       /\ result[k].unit # result[l].unit

\* C13: every result has exactly the columns kit_id, sensor, timestamp, value,
\* unit, an empty one included, and an empty live fetch without a usable
\* snapshot gives the empty collection of that schema
C13_FixedSchema ==
  Returned =>
    /\ df_columns = {"kit_id", "sensor", "timestamp", "value", "unit"}
    /\ (cache_dir.called /\ Candidates(kit_id, cache_dir.dir) = <<>>)
         => result = <<>>

\* C14: every request of a _paginate generator carries the page size, its
\* first request carries no cursor, and each later one carries the next_cursor
\* of the response just before it
C14_CursorOfPrecedingResponse ==
  ep.requests >= 1 =>
    /\ ep.sent.size = PageSize
    /\ ep.sent.cursor = ep.expected
    /\ ep.requests = 1 <=> ep.sent.cursor = Absent
\* the second request to the second endpoint of a call went out with the
\* cursor of the first response of that endpoint, after the first endpoint
\* had delivered items
C14_Witness ==
  /\ ep.requests = 2
  /\ Len(queried) = 2
  /\ ep.sent.cursor = Str("c2")
  /\ \E i \in 1..Len(served) : served[i].sensor = queried[1]

\* C17: building a record leaves the raw item as it was received, its
\* "attributes" included, so the _raw column holds the item as received
C17_RawItemUnchanged ==
  \A i \in 1..Len(served) :
    (impl = "utils" /\ served[i].out.outcome = "row")
      => served[i].out.row.raw = served[i].item

\* a flat item (no "attributes") with a parseable timestamp and with a value
\* under some value alias
FlatWithValue(s) ==
  /\ s.item.kind = "dict" /\ s.item.attributes.kind = "absent"
  /\ to_datetime(Carried(s.item, TsKeys)) # NaT
  /\ Carried(s.item, ValKeys) # Null
\* C18: an item with a parseable timestamp and a value under a value alias
\* yields one row whatever the value is, zero included, and the row has the
\* value of the first alias present
C18_FalsyValueKept ==
  /\ \A i \in 1..Len(served) :
       (FlatWithValue(served[i]) /\ served[i].out.outcome # "unreached")
         => /\ served[i].out.outcome = "row"
            /\ served[i].out.row.value = Carried(served[i].item, ValKeys)
  /\ (pc \in {"cache", "returned"}) => Len(df) >= Count(served, FlatWithValue)

\* C16: main exits with status zero when the output file is written and with
\* a non-zero status when writing it fails, in either format, and it exits
\* with a non-zero status for no other reason: not for a fetch that failed
C16_ExitStatus ==
  cli.ran =>
    /\ cli.written => cli.exit = 0
    /\ (cli.attempted /\ ~cli.written) => cli.exit # 0
    /\ cli.exit # 0 => cli.attempted

\* the generation requests of the log, in order
Requests == SelectSeq(g_log, LAMBDA e : e.kind = "request")

\* C15: at most 5 generation requests are issued, numbered 1, 2, ... in order;
\* nothing follows a request that gave an image or the fifth request; every
\* other request is followed by one wait of 2 seconds, and there is no other
\* wait
C15_FixedRetries ==
  /\ Len(Requests) <= 5
  /\ \A n \in 1..Len(Requests) : Requests[n].attempt = n
  /\ \A i \in 1..Len(g_log) :
       LET e == g_log[i]
       IN IF e.kind = "request"
          THEN IF e.outcome = "image" \/ e.attempt = 5
               THEN i = Len(g_log)
               ELSE /\ i < Len(g_log)
                    /\ g_log[i + 1].kind = "sleep"
                    /\ g_log[i + 1].seconds = 2
          ELSE /\ i > 1 /\ g_log[i - 1].kind = "request"
               /\ (i < Len(g_log) => g_log[i + 1].kind = "request")
  /\ g_pc = "returned" =>
       \/ g_log = <<>>
       \/ g_log[Len(g_log)].outcome = "image"
       \/ g_log[Len(g_log)].attempt = 5
\* four failed attempts, each followed by its wait, and a fifth that succeeds
C15_Witness ==
  /\ g_pc = "returned"
  /\ Len(Requests) = 5
  /\ Len(g_log) = 9
  /\ g_result = 5

\* C19: the call returns an image only if the last attempt it made went
\* through without an error and gave that image
C19_ImageOfLastAttempt ==
  (g_pc = "returned" /\ g_result # 0) =>
     /\ Requests # <<>>
     /\ Requests[Len(Requests)].outcome = "image"
     /\ g_result = Requests[Len(Requests)].attempt

\* C20: once the _disable_refresh of every started chain has run, an enabled
\* Refresh button means that the stored frame is a non-empty one fetched for
\* the kit the kit field shows, and a click made then renders such a frame
C20_RefreshMatchesKit ==
  /\ (DisablesDone /\ refresh_btn) =>
        df_state.loaded /\ df_state.kit = KitOf(kit_input)
  /\ (rendered.by = "click" /\ rendered.settled) =>
        rendered.df.loaded /\ rendered.df.kit = KitOf(rendered.kit)

====
